---------------------------- MODULE Spec2Model ----------------------------
(***************************************************************************)
(* Model of gocql's events.go: the event debouncer (eventDeouncer), and    *)
(* the node-event aggregator and lifecycle handlers of Session.            *)
(*                                                                         *)
(* Spec      the debouncer: concurrent producers calling debounce(), the   *)
(*           runtime timer, the flusher goroutine, stop() and the callback *)
(*           goroutines started by flush().                                *)
(* SpecNode  one run of Session.handleNodeEvent over a batch of frames,    *)
(*           against the ring, the pool, the control connection and the    *)
(*           host source.                                                  *)
(* SpecEvent the debouncer with Session.handleEvent as the only caller of  *)
(*           debounce().                                                   *)
(* SpecFair  the debouncer under the fairness the Go runtime provides, for *)
(*           the progress properties.                                      *)
(***************************************************************************)
EXTENDS Integers, Sequences, FiniteSets, TLC

\* ------------------------------------------------------------------ bounds

\* events.go:52 sets eventBufferSize = 1000; the model scales the capacity down.
eventBufferSize == 2
\* Number of concurrent goroutines calling debounce().
NumProducers == 2
\* Total number of debounce() calls in a run.
MaxCalls == 5

Producers == 1..NumProducers

VARIABLES
    \* ---- eventDeouncer (events.go:10-18) and the goroutines around it
    events,      \* e.events: the pending sequence of frames
    mu,          \* e.mu: <<"free", 0>>, <<"producer", p>> or <<"flusher", 0>>
    timerArmed,  \* e.timer is running (it will expire unless reset or stopped)
    timerC,      \* number of values buffered in e.timer.C (capacity 1)
    pcF,         \* flusher goroutine: "select", "lock", "flush", "unlock", "done"
    pcS,         \* the goroutine calling stop(): "idle", "send", "close", "returned"
    quitClosed,  \* e.quit has been closed
    pcP,         \* each producer: "idle", "lock", "reset", "append", "unlock"
    frameP,      \* the frame each producer is passing to debounce() (0: none)
    nextId,      \* frames are numbered in the order their calls take the lock
    delivered,   \* history: the batches handed to `go e.callback(...)`, in flush order
    running,     \* indices of delivered whose callback goroutine has not returned
    dropped,     \* history: frames logged as "buffer full, dropping event frame"
    bursts,      \* history: the calls grouped by timer expiry (see burstsAfterReset)
    straddled,   \* history: some call entered debounce() before an expiry and reset after it
    flushLogged, \* the count logged by the latest flush() ("flushing %d events"), -1: none
    stopAt,      \* history: nextId when stop() returned (0: it has not)
    pendingAtQuit, \* history: e.events when the flusher received from e.quit
    heap,        \* the backing arrays of e.events and of the batches (see HeapInit)
    \* ---- Session.handleNodeEvent (one callback goroutine) and the handlers
    npc,         \* "off", "idle", "dispatch" (in the loop over the map), "done"
    frames,      \* the batch passed to handleNodeEvent
    nodeEvents,  \* the map `events`: address -> [change, host, port]
    todo,        \* addresses the `for addr, f := range events` loop has not visited
    control,     \* s.control: "nil" or "conn"
    ring,        \* s.ring: address -> id of the *HostInfo it holds (0: no entry)
    objs,        \* the *HostInfo objects: id -> [addr, port, state, info]
    pool,        \* s.pool: addresses of the hosts the pool holds
    calls,       \* history: handler entries and collaborator calls, in order
    dispatched,  \* history: what the loop of handleNodeEvent dispatched, in order
    \* ---- Session.handleEvent
    handled      \* history: what the latest handleEvent call was given ("none": no call)

dvars == <<events, mu, timerArmed, timerC, pcF, pcS, quitClosed, pcP, frameP,
           nextId, delivered, running, dropped, bursts, straddled, flushLogged, stopAt,
           pendingAtQuit, heap>>
nvars == <<npc, frames, nodeEvents, todo, control, ring, objs, pool, calls,
           dispatched, handled>>
vars == <<dvars, nvars>>

Range(s) == {s[i] : i \in DOMAIN s}

\* ------------------------------------------------------------ eventDeouncer

\* e.mu held by nobody.
Unlocked == <<"free", 0>>

\* Slices share their backing array.  heap.arr lists the arrays made so far (the
\* cells written in each), heap.cur is the array e.events points into, and
\* heap.of[i] is the array of the slice handed to the i-th callback.
\* newEventDeouncer leaves e.events nil: the arrays that append allocates for it
\* before the first flush are referenced by e.events alone and count as array 1.
HeapInit == [arr |-> << << >> >>, cur |-> 1, of |-> << >>]

\* Array a after the slice contents s were written into its first Len(s) cells.
Store(a, s) ==
    [i \in 1..(IF Len(a) > Len(s) THEN Len(a) ELSE Len(s)) |->
        IF i <= Len(s) THEN s[i] ELSE a[i]]

\* append(e.events, frame) below capacity writes into the array of e.events.
heapAfterAppend(h, evs) == [h EXCEPT !.arr[h.cur] = Store(@, evs)]

\* flush(): the callback gets the slice over the current array; with `fresh`,
\* e.events moves to a new array (make), otherwise it stays on the same one.
heapAfterFlush(h, call, fresh) ==
    LET h1 == IF call THEN [h EXCEPT !.of = Append(@, h.cur)] ELSE h IN
    IF fresh
    THEN [h1 EXCEPT !.arr = Append(@, << >>), !.cur = Len(h.arr) + 1]
    ELSE h1

\* newEventDeouncer: empty buffer, open quit channel, timer created and stopped,
\* flusher goroutine started and waiting in its select.
DebouncerInit ==
    /\ events = << >>
    /\ mu = Unlocked
    /\ timerArmed = FALSE
    /\ timerC = 0
    /\ pcF = "select"
    /\ pcS = "idle"
    /\ quitClosed = FALSE
    /\ pcP = [p \in Producers |-> "idle"]
    /\ frameP = [p \in Producers |-> 0]
    /\ nextId = 1
    /\ delivered = << >>
    /\ running = {}
    /\ dropped = << >>
    /\ bursts = << >>
    /\ straddled = FALSE
    /\ flushLogged = -1
    /\ stopAt = 0
    /\ pendingAtQuit = << >>
    /\ heap = HeapInit

\* flush() that hands the batch over and keeps it in the buffer as well.
flush_KeepsEvents(evs) ==
    IF Len(evs) = 0
    THEN [call |-> FALSE, batch |-> << >>, events |-> evs, fresh |-> FALSE]
    ELSE [call |-> TRUE, batch |-> evs, events |-> evs, fresh |-> FALSE]

\* flush() without the empty check.
flush_NoEmptyCheck(evs) ==
    [call |-> TRUE, batch |-> evs, events |-> << >>, fresh |-> TRUE]

\* flush() that empties the buffer in place (e.events = e.events[:0]) instead of
\* making a new one.
flush_ReusesBuffer(evs) ==
    IF Len(evs) = 0
    THEN [call |-> FALSE, batch |-> << >>, events |-> evs, fresh |-> FALSE]
    ELSE [call |-> TRUE, batch |-> evs, events |-> << >>, fresh |-> FALSE]

\* flush(): nothing on an empty buffer; otherwise `go e.callback(e.events)` and a
\* fresh buffer (`e.events = make([]frame, 0, eventBufferSize)`).
flush(evs) ==
    IF Len(evs) = 0
    THEN [call |-> FALSE, batch |-> << >>, events |-> evs, fresh |-> FALSE]
    ELSE [call |-> TRUE, batch |-> evs, events |-> << >>, fresh |-> TRUE]

\* debounce() without the capacity check.
debounceAppend_NoCap(evs, f) ==
    [events |-> Append(evs, f), drop |-> FALSE]

\* debounce() that makes room by evicting the oldest frame when full.
debounceAppend_DropOldest(evs, f) ==
    IF Len(evs) < eventBufferSize
    THEN [events |-> Append(evs, f), drop |-> FALSE]
    ELSE [events |-> Append(Tail(evs), f), drop |-> TRUE]

\* debounce() that puts the new frame in front of the pending ones.
debounceAppend_Prepends(evs, f) ==
    IF Len(evs) < eventBufferSize
    THEN [events |-> <<f>> \o evs, drop |-> FALSE]
    ELSE [events |-> evs, drop |-> TRUE]

\* debounce(), the buffering branch: append under capacity, else log and drop.
debounceAppend(evs, f) ==
    IF Len(evs) < eventBufferSize
    THEN [events |-> Append(evs, f), drop |-> FALSE]
    ELSE [events |-> evs, drop |-> TRUE]

\* History of bursts.  A call joins the current burst when its timer.Reset finds the
\* timer still running (armed by the previous call); otherwise it starts a burst.
\* dirty: the burst started while an earlier expiry had not been flushed yet (a
\* value sits in timer.C, or the flusher received it and has not taken the lock).
burstsAfterReset(bs, f, armed, c, pf) ==
    IF armed /\ Len(bs) > 0
    THEN [bs EXCEPT ![Len(bs)].evs = Append(@, f)]
    ELSE Append(bs, [evs |-> <<f>>, dirty |-> (c = 1 \/ pf = "lock")])

\* A goroutine enters debounce() and blocks on e.mu.Lock().
DebounceCall(p) ==
    /\ pcP[p] = "idle"
    /\ nextId + Cardinality({q \in Producers : pcP[q] = "lock"}) <= MaxCalls
    /\ pcP' = [pcP EXCEPT ![p] = "lock"]
    /\ UNCHANGED <<events, mu, timerArmed, timerC, pcF, pcS, quitClosed, frameP,
                   nextId, delivered, running, dropped, bursts, straddled, flushLogged,
                   stopAt,
                   pendingAtQuit, heap, nvars>>

\* e.mu.Lock() succeeds.
DebounceLock(p) ==
    /\ pcP[p] = "lock"
    /\ mu = Unlocked
    /\ mu' = <<"producer", p>>
    /\ frameP' = [frameP EXCEPT ![p] = nextId]
    /\ nextId' = nextId + 1
    /\ pcP' = [pcP EXCEPT ![p] = "reset"]
    /\ UNCHANGED <<events, timerArmed, timerC, pcF, pcS, quitClosed,
                   delivered, running, dropped, bursts, straddled, flushLogged, stopAt,
                   pendingAtQuit, heap, nvars>>

\* debounce() that resets the timer only when it is going to buffer the frame.
DebounceReset_OnlyWhenRoom(p) ==
    /\ pcP[p] = "reset"
    /\ timerArmed' = IF Len(events) < eventBufferSize THEN TRUE ELSE timerArmed
    /\ bursts' = burstsAfterReset(bursts, frameP[p], timerArmed, timerC, pcF)
    /\ pcP' = [pcP EXCEPT ![p] = "append"]
    /\ UNCHANGED <<events, mu, timerC, pcF, pcS, quitClosed, frameP, nextId,
                   delivered, running, dropped, straddled, flushLogged, stopAt,
                   pendingAtQuit, heap, nvars>>

\* e.timer.Reset(eventDebounceTime): the timer runs again for a full interval.  A
\* value already sent on timer.C stays there: Reset does not drain the channel
\* (timer channels are buffered for modules that do not declare go 1.23 or later).
DebounceReset(p) ==
    /\ pcP[p] = "reset"
    /\ timerArmed' = TRUE
    /\ bursts' = burstsAfterReset(bursts, frameP[p], timerArmed, timerC, pcF)
    /\ pcP' = [pcP EXCEPT ![p] = "append"]
    /\ UNCHANGED <<events, mu, timerC, pcF, pcS, quitClosed, frameP, nextId,
                   delivered, running, dropped, straddled, flushLogged, stopAt,
                   pendingAtQuit, heap, nvars>>

\* if len(e.events) < eventBufferSize { append } else { log the drop }
DebounceAppend(p) ==
    /\ pcP[p] = "append"
    /\ LET r == debounceAppend(events, frameP[p]) IN
         /\ events' = r.events
         /\ dropped' = IF r.drop THEN Append(dropped, frameP[p]) ELSE dropped
         /\ heap' = heapAfterAppend(heap, r.events)
    /\ pcP' = [pcP EXCEPT ![p] = "unlock"]
    /\ UNCHANGED <<mu, timerArmed, timerC, pcF, pcS, quitClosed, frameP, nextId,
                   delivered, running, bursts, straddled, flushLogged, stopAt,
                   pendingAtQuit, nvars>>

\* e.mu.Unlock(); debounce() returns.
DebounceUnlock(p) ==
    /\ pcP[p] = "unlock"
    /\ mu' = Unlocked
    /\ pcP' = [pcP EXCEPT ![p] = "idle"]
    /\ frameP' = [frameP EXCEPT ![p] = 0]
    /\ UNCHANGED <<events, timerArmed, timerC, pcF, pcS, quitClosed, nextId,
                   delivered, running, dropped, bursts, straddled, flushLogged, stopAt,
                   pendingAtQuit, heap, nvars>>

\* A timer that keeps running after it expires, like a time.Ticker.
TimerFire_Ticker ==
    /\ timerArmed
    /\ timerArmed' = TRUE
    /\ timerC' = 1
    /\ straddled' = (straddled \/ \E p \in Producers : pcP[p] \in {"lock", "reset"})
    /\ UNCHANGED <<events, mu, pcF, pcS, quitClosed, pcP, frameP, nextId,
                   delivered, running, dropped, bursts, flushLogged, stopAt,
                   pendingAtQuit, heap, nvars>>

\* The runtime: a running timer expires and sends on timer.C without blocking (the
\* channel has capacity 1; the value is discarded when one is already buffered).
TimerFire ==
    /\ timerArmed
    /\ timerArmed' = FALSE
    /\ timerC' = 1
    /\ straddled' = (straddled \/ \E p \in Producers : pcP[p] \in {"lock", "reset"})
    /\ UNCHANGED <<events, mu, pcF, pcS, quitClosed, pcP, frameP, nextId,
                   delivered, running, dropped, bursts, flushLogged, stopAt,
                   pendingAtQuit, heap, nvars>>

\* flusher: case <-e.timer.C
FlusherRecvTimer ==
    /\ pcF = "select"
    /\ timerC = 1
    /\ timerC' = 0
    /\ pcF' = "lock"
    /\ UNCHANGED <<events, mu, timerArmed, pcS, quitClosed, pcP, frameP, nextId,
                   delivered, running, dropped, bursts, straddled, flushLogged, stopAt,
                   pendingAtQuit, heap, nvars>>

\* flusher: e.mu.Lock()
FlusherLock ==
    /\ pcF = "lock"
    /\ mu = Unlocked
    /\ mu' = <<"flusher", 0>>
    /\ pcF' = "flush"
    /\ UNCHANGED <<events, timerArmed, timerC, pcS, quitClosed, pcP, frameP, nextId,
                   delivered, running, dropped, bursts, straddled, flushLogged, stopAt,
                   pendingAtQuit, heap, nvars>>

\* flusher: e.flush() with mu held
FlusherFlush ==
    /\ pcF = "flush"
    /\ LET r == flush(events) IN
         /\ events' = r.events
         /\ delivered' = IF r.call THEN Append(delivered, r.batch) ELSE delivered
         /\ running' = IF r.call THEN running \cup {Len(delivered) + 1} ELSE running
         /\ heap' = heapAfterFlush(heap, r.call, r.fresh)
    /\ flushLogged' = Len(events)
    /\ pcF' = "unlock"
    /\ UNCHANGED <<mu, timerArmed, timerC, pcS, quitClosed, pcP, frameP, nextId,
                   dropped, bursts, straddled, stopAt, pendingAtQuit, nvars>>

\* A flusher that runs the callback itself: it keeps e.mu until the callbacks it
\* started have returned.
FlusherUnlock_AfterCallback ==
    /\ pcF = "unlock"
    /\ running = {}
    /\ mu' = Unlocked
    /\ pcF' = "select"
    /\ UNCHANGED <<events, timerArmed, timerC, pcS, quitClosed, pcP, frameP, nextId,
                   delivered, running, dropped, bursts, straddled, flushLogged, stopAt,
                   pendingAtQuit, heap, nvars>>

\* A flusher that leaves its loop after one flush.
FlusherUnlock_ExitsLoop ==
    /\ pcF = "unlock"
    /\ mu' = Unlocked
    /\ pcF' = "done"
    /\ UNCHANGED <<events, timerArmed, timerC, pcS, quitClosed, pcP, frameP, nextId,
                   delivered, running, dropped, bursts, straddled, flushLogged, stopAt,
                   pendingAtQuit, heap, nvars>>

\* flusher: e.mu.Unlock(), back to the select
FlusherUnlock ==
    /\ pcF = "unlock"
    /\ mu' = Unlocked
    /\ pcF' = "select"
    /\ UNCHANGED <<events, timerArmed, timerC, pcS, quitClosed, pcP, frameP, nextId,
                   delivered, running, dropped, bursts, straddled, flushLogged, stopAt,
                   pendingAtQuit, heap, nvars>>

\* stop() that takes e.mu before it signals, and keeps it.
StopCall_HoldingLock ==
    /\ pcS = "idle"
    /\ mu = Unlocked
    /\ mu' = <<"stop", 0>>
    /\ pcS' = "send"
    /\ UNCHANGED <<events, timerArmed, timerC, pcF, quitClosed, pcP, frameP,
                   nextId, delivered, running, dropped, bursts, straddled, flushLogged,
                   stopAt, pendingAtQuit, heap, nvars>>

\* stop() reaches `e.quit <- struct{}{}` and blocks until the flusher receives.
StopCall ==
    /\ pcS = "idle"
    /\ pcS' = "send"
    /\ UNCHANGED <<events, mu, timerArmed, timerC, pcF, quitClosed, pcP, frameP,
                   nextId, delivered, running, dropped, bursts, straddled, flushLogged,
                   stopAt,
                   pendingAtQuit, heap, nvars>>

\* A flusher that acknowledges the stop signal and keeps looping.
FlusherRecvQuit_KeepsLooping ==
    /\ pcF = "select"
    /\ pcS = "send"
    /\ pcF' = "select"
    /\ pcS' = "close"
    /\ pendingAtQuit' = events
    /\ UNCHANGED <<events, mu, timerArmed, timerC, quitClosed, pcP, frameP, nextId,
                   delivered, running, dropped, bursts, straddled, flushLogged, stopAt,
                   heap, nvars>>

\* A flusher that hands the pending frames to the callback before it exits.
FlusherRecvQuit_FinalFlush ==
    /\ pcF = "select"
    /\ pcS = "send"
    /\ pcF' = "done"
    /\ pcS' = "close"
    /\ pendingAtQuit' = events
    /\ LET r == flush(events) IN
         /\ events' = r.events
         /\ delivered' = IF r.call THEN Append(delivered, r.batch) ELSE delivered
         /\ running' = IF r.call THEN running \cup {Len(delivered) + 1} ELSE running
         /\ heap' = heapAfterFlush(heap, r.call, r.fresh)
    /\ UNCHANGED <<mu, timerArmed, timerC, quitClosed, pcP, frameP, nextId,
                   dropped, bursts, straddled, flushLogged, stopAt, nvars>>

\* flusher: case <-e.quit: return.  The unbuffered send and the receive meet.
FlusherRecvQuit ==
    /\ pcF = "select"
    /\ pcS = "send"
    /\ pcF' = "done"
    /\ pcS' = "close"
    /\ pendingAtQuit' = events
    /\ UNCHANGED <<events, mu, timerArmed, timerC, quitClosed, pcP, frameP, nextId,
                   delivered, running, dropped, bursts, straddled, flushLogged, stopAt,
                   heap, nvars>>

\* stop(): close(e.quit) and return.
StopClose ==
    /\ pcS = "close"
    /\ quitClosed' = TRUE
    /\ pcS' = "returned"
    /\ stopAt' = nextId
    /\ UNCHANGED <<events, mu, timerArmed, timerC, pcF, pcP, frameP, nextId,
                   delivered, running, dropped, bursts, straddled, flushLogged,
                   pendingAtQuit, heap, nvars>>

\* A callback goroutine started by flush() returns.
CallbackReturn(i) ==
    /\ i \in running
    /\ running' = running \ {i}
    /\ UNCHANGED <<events, mu, timerArmed, timerC, pcF, pcS, quitClosed, pcP, frameP,
                   nextId, delivered, dropped, bursts, straddled, flushLogged, stopAt,
                   pendingAtQuit, heap, nvars>>

\* The Session part is not running.
NodeOff ==
    /\ npc = "off"
    /\ frames = << >>
    /\ nodeEvents = << >>
    /\ todo = {}
    /\ control = "nil"
    /\ ring = << >>
    /\ objs = << >>
    /\ pool = {}
    /\ calls = << >>
    /\ dispatched = << >>
    /\ handled = "none"

Init ==
    /\ DebouncerInit
    /\ NodeOff

Next ==
    \/ \E p \in Producers : DebounceCall(p)
    \/ \E p \in Producers : DebounceLock(p)
    \/ \E p \in Producers : DebounceReset(p)
    \/ \E p \in Producers : DebounceAppend(p)
    \/ \E p \in Producers : DebounceUnlock(p)
    \/ TimerFire
    \/ FlusherRecvTimer
    \/ FlusherLock
    \/ FlusherFlush
    \/ FlusherUnlock
    \/ StopCall
    \/ FlusherRecvQuit
    \/ StopClose
    \/ \E i \in running : CallbackReturn(i)

Spec == Init /\ [][Next]_vars

\* ------------------------------------------------------- debouncer: claims

\* No stop() was requested, no call is inside debounce(), the timer is neither
\* running nor expired-and-unconsumed, and the flusher waits in its select.
Quiescent ==
    /\ pcS = "idle"
    /\ \A p \in Producers : pcP[p] = "idle"
    /\ ~timerArmed
    /\ timerC = 0
    /\ pcF = "select"

BatchesTouching(b) ==
    {i \in DOMAIN delivered : Range(delivered[i]) \cap Range(bursts[b].evs) # {}}

\* The callback ran exactly once with frames of burst b, and its batch was `batch`.
DeliveredOnceAs(b, batch) ==
    /\ Cardinality(BatchesTouching(b)) = 1
    /\ \A i \in BatchesTouching(b) : delivered[i] = batch

\* Burst b began with the debouncer idle, and the next burst began only after the
\* flush for b's expiry had run.
Isolated(b) ==
    /\ ~bursts[b].dirty
    /\ b < Len(bursts) => ~bursts[b + 1].dirty

\* C1 as stated: every burst of 1..capacity calls made within one interval (each
\* Reset finding the timer armed by the previous call still running, no stop) gets
\* exactly one callback, whose batch is exactly the burst in submission order.
\* (Runs in which a call entered debounce() before an expiry and reset the timer
\* after it are left out: there the burst a call belongs to depends on which of the
\* two moments counts as its arrival.)
C1_EveryBurstOnce ==
    (Quiescent /\ ~straddled) =>
        \A b \in DOMAIN bursts :
            Len(bursts[b].evs) <= eventBufferSize
                => DeliveredOnceAs(b, bursts[b].evs)

\* C1 amended: the same, for bursts that begin while the debouncer is idle and whose
\* expiry is flushed before the next debounce() call resets the timer.
C1_IsolatedBurstOnce ==
    Quiescent =>
        \A b \in DOMAIN bursts :
            (Len(bursts[b].evs) <= eventBufferSize /\ Isolated(b))
                => DeliveredOnceAs(b, bursts[b].evs)

C1_Witness ==
    /\ Quiescent
    /\ Len(bursts) >= 2
    /\ \E b \in DOMAIN bursts :
        /\ b < Len(bursts)
        /\ Isolated(b)
        /\ Len(bursts[b].evs) = eventBufferSize
        /\ DeliveredOnceAs(b, bursts[b].evs)

\* The step of debounce() that finds the buffer full: the frame is logged as
\* dropped and the pending sequence is left as it was.
DropStep ==
    \A p \in Producers :
        (pcP[p] = "append" /\ pcP'[p] = "unlock" /\ Len(events) >= eventBufferSize)
            => (events' = events /\ dropped' = Append(dropped, frameP[p]))

Overflowed(b) == Len(bursts[b].evs) > eventBufferSize

\* The callback got exactly the first C frames of burst b; each later frame of the
\* burst was logged as dropped, once.
FirstCDelivered(b) ==
    /\ DeliveredOnceAs(b, SubSeq(bursts[b].evs, 1, eventBufferSize))
    /\ \A k \in (eventBufferSize + 1)..Len(bursts[b].evs) :
        Cardinality({j \in DOMAIN dropped : dropped[j] = bursts[b].evs[k]}) = 1

\* C2 as stated: of N > C calls within one interval the callback receives exactly the
\* first C frames; the other N-C calls drop their frame and are logged.
\* (Runs with a call straddling an expiry are left out, as for C1.)
C2_OverflowFirstC ==
    (Quiescent /\ ~straddled) => \A b \in DOMAIN bursts : Overflowed(b) => FirstCDelivered(b)

\* C2 amended: the same for a burst that begins while the debouncer is idle (pending
\* sequence empty, no expiry waiting for its flush); and every call that finds the
\* buffer full drops its frame, logs it, and leaves the pending sequence unchanged.
C2_IdleStartOverflowFirstC ==
    /\ [](Quiescent =>
            \A b \in DOMAIN bursts :
                (Overflowed(b) /\ ~bursts[b].dirty) => FirstCDelivered(b))
    /\ [][DropStep]_vars

C2_Witness ==
    /\ Quiescent
    /\ \E b \in DOMAIN bursts :
        /\ Overflowed(b)
        /\ ~bursts[b].dirty
        /\ FirstCDelivered(b)
        /\ Len(dropped) = Len(bursts[b].evs) - eventBufferSize

\* C3: the pending sequence never exceeds the capacity, and every batch handed to
\* the callback holds between 1 and capacity frames.
C3_Bounded ==
    /\ Len(events) <= eventBufferSize
    /\ \A i \in DOMAIN delivered :
        Len(delivered[i]) >= 1 /\ Len(delivered[i]) <= eventBufferSize

C3_Witness ==
    /\ Len(events) = eventBufferSize
    /\ Len(dropped) >= 1
    /\ \E i \in DOMAIN delivered : Len(delivered[i]) = eventBufferSize
    /\ pcS # "idle"

\* A flush() that finds the pending sequence empty starts no callback and leaves
\* the sequence empty.
EmptyFlushStep ==
    (pcF = "flush" /\ pcF' = "unlock" /\ events = << >>)
        => (delivered' = delivered /\ running' = running /\ events' = << >>)

\* C4: an empty flush is a no-op, and no batch handed to the callback is empty.
C4_EmptyFlushNoCallback ==
    /\ [][EmptyFlushStep]_vars
    /\ [](\A i \in DOMAIN delivered : delivered[i] # << >>)

C4_Witness ==
    /\ pcF = "unlock"
    /\ flushLogged = 0
    /\ events = << >>
    /\ Len(delivered) >= 1

IsPrefix(s, t) == Len(s) <= Len(t) /\ SubSeq(t, 1, Len(s)) = s

\* C5: once stop() has returned the flusher has exited, no step starts a callback or
\* runs a flush, and the pending sequence only grows.
C5_NoCallbackAfterStop ==
    /\ [](pcS = "returned" => pcF = "done")
    /\ [][pcS = "returned" =>
            /\ delivered' = delivered
            /\ pcF' = "done"
            /\ flushLogged' = flushLogged
            /\ IsPrefix(events, events')]_vars

\* stop() returned, and a frame of a later debounce() call sits in the buffer with
\* its timer expired.
C5_Witness ==
    /\ pcS = "returned"
    /\ timerC = 1
    /\ ~timerArmed
    /\ \E k \in DOMAIN events : events[k] >= stopAt
    /\ \A p \in Producers : pcP[p] = "idle"


\* ------------------------------------------- Session: aggregator and handlers

\* Longest batch passed to handleNodeEvent.
MaxBatch == 3

HostSeq == <<"10.0.0.1", "10.0.0.2">>
Hosts == Range(HostSeq)
Ports == {9042}
NodeStates == {"up", "down"}

\* topologyChangeEventFrame carries NEW_NODE, REMOVED_NODE or MOVED_NODE and
\* statusChangeEventFrame carries UP or DOWN.
NodeFrames ==
    [type : {"topology"}, host : Hosts, port : Ports,
     change : {"NEW_NODE", "REMOVED_NODE", "MOVED_NODE"}]
    \cup [type : {"status"}, host : Hosts, port : Ports, change : {"UP", "DOWN"}]

Batches == UNION {[1..n -> NodeFrames] : n \in 1..MaxBatch}

\* An entry of the calls history.
Call(op, addr, port, obj) == [op |-> op, addr |-> addr, port |-> port, obj |-> obj]

\* The state the handlers act on, as one record.
World == [ring |-> ring, objs |-> objs, pool |-> pool, calls |-> calls]

Logged(w, c) == [w EXCEPT !.calls = Append(@, c)]

\* A per-host accumulator that keeps the first change kind it saw.
accumulate_FirstWins(m, f) ==
    IF f.host \in DOMAIN m
    THEN m
    ELSE m @@ (f.host :> [change |-> f.change, host |-> f.host, port |-> f.port])

\* One iteration of the first loop of handleNodeEvent: look up or create the
\* accumulator for f.host.String(), then overwrite its change kind.
accumulate(m, f) ==
    CASE f.type = "topology" ->
            IF f.host \in DOMAIN m
            THEN [m EXCEPT ![f.host].change = f.change]
            ELSE m @@ (f.host :> [change |-> f.change, host |-> f.host, port |-> f.port])
      [] f.type = "status" ->
            IF f.host \in DOMAIN m
            THEN [m EXCEPT ![f.host].change = f.change]
            ELSE m @@ (f.host :> [change |-> f.change, host |-> f.host, port |-> f.port])
      [] OTHER -> m

RECURSIVE aggregate(_, _)
aggregate(fs, m) ==
    IF fs = << >> THEN m ELSE aggregate(Tail(fs), accumulate(m, Head(fs)))

\* What s.control.fetchHostInfo can return: an error, or a fresh *HostInfo.
FetchOutcomes ==
    {[ok |-> FALSE, state |-> "up"]} \cup [ok : {TRUE}, state : NodeStates]

Fetches(cs) == Cardinality({i \in DOMAIN cs : cs[i].op = "fetchHostInfo"})

\* s.control.fetchHostInfo(host, port) succeeded: a new object holding the fetched
\* metadata (info: the number of the fetch that produced it).
fetched(w, host, port, fetch) ==
    LET id == Len(HostSeq) + Fetches(w.calls) + 1 IN
    [id |-> id,
     w |-> [Logged(w, Call("fetchHostInfo", host, port, id))
               EXCEPT !.objs = @ @@ (id :> [addr |-> host, port |-> port,
                                            state |-> fetch.state,
                                            info |-> Fetches(w.calls) + 1])]]

\* s.control.fetchHostInfo(host, port) returned an error (logged with object 0).
fetchFailed(w, host, port) == Logged(w, Call("fetchHostInfo", host, port, 0))

\* s.ring.addHostIfMissing(hostInfo): (existing, false) when the ring has an entry
\* for the address, else the entry is created and (hostInfo, true) returned.
addHostIfMissing(w, id) ==
    LET addr == w.objs[id].addr
        w1 == Logged(w, Call("ring.addHostIfMissing", addr, 0, id)) IN
    IF w.ring[addr] # 0
    THEN [existing |-> w.ring[addr], ok |-> FALSE, w |-> w1]
    ELSE [existing |-> id, ok |-> TRUE, w |-> [w1 EXCEPT !.ring[addr] = id]]

\* existing.update(hostInfo): the metadata of hostInfo is copied into existing.
update(w, existing, id) ==
    [Logged(w, Call("update", w.objs[existing].addr, 0, existing))
        EXCEPT !.objs[existing].info = w.objs[id].info]

\* s.pool.addHost(hostInfo), then s.hostSource.refreshRing().
poolAddHost(w, id) ==
    [Logged(w, Call("pool.addHost", w.objs[id].addr, 0, id))
        EXCEPT !.pool = @ \cup {w.objs[id].addr}]

refreshRing(w) == Logged(w, Call("refreshRing", "", 0, 0))

\* handleNewNode that registers the fetched host even when the fetch failed.
handleNewNode_IgnoresFetchError(w, ctl, host, port, fetch) ==
    LET w0 == Logged(w, Call("handleNewNode", host, port, 0)) IN
    IF ctl = "nil" THEN w0
    ELSE
      LET f == IF fetch.ok
               THEN fetched(w0, host, port, fetch)
               ELSE [fetched(w0, host, port, fetch) EXCEPT
                        !.w.calls = fetchFailed(w0, host, port).calls]
          a == addHostIfMissing(f.w, f.id)
          w2 == IF a.ok THEN a.w ELSE update(a.w, a.existing, f.id) IN
      refreshRing(poolAddHost(w2, a.existing))

\* handleNewNode that forgets to register the host with the pool.
handleNewNode_NoPoolAdd(w, ctl, host, port, fetch) ==
    LET w0 == Logged(w, Call("handleNewNode", host, port, 0)) IN
    IF ctl = "nil" THEN w0
    ELSE
      IF ~fetch.ok THEN fetchFailed(w0, host, port)
      ELSE
        LET f == fetched(w0, host, port, fetch)
            a == addHostIfMissing(f.w, f.id)
            w2 == IF a.ok THEN a.w ELSE update(a.w, a.existing, f.id) IN
        refreshRing(w2)

\* handleNewNode that registers the fetched instance with the pool even when the
\* ring already held one for the address.
handleNewNode_PoolsFetched(w, ctl, host, port, fetch) ==
    LET w0 == Logged(w, Call("handleNewNode", host, port, 0)) IN
    IF ctl = "nil" THEN w0
    ELSE
      IF ~fetch.ok THEN fetchFailed(w0, host, port)
      ELSE
        LET f == fetched(w0, host, port, fetch)
            a == addHostIfMissing(f.w, f.id)
            w2 == IF a.ok THEN a.w ELSE update(a.w, a.existing, f.id) IN
        refreshRing(poolAddHost(w2, f.id))

\* handleNewNode(host, port)
handleNewNode(w, ctl, host, port, fetch) ==
    LET w0 == Logged(w, Call("handleNewNode", host, port, 0)) IN
    IF ctl = "nil" THEN w0
    ELSE
      IF ~fetch.ok THEN fetchFailed(w0, host, port)
      ELSE
        LET f == fetched(w0, host, port, fetch)
            a == addHostIfMissing(f.w, f.id)
            w2 == IF a.ok THEN a.w ELSE update(a.w, a.existing, f.id) IN
        refreshRing(poolAddHost(w2, a.existing))

\* handleRemovedNode(ip, port): pool.removeHost(addr), ring.removeHost(addr),
\* refreshRing().
handleRemovedNode(w, ip, port) ==
    LET w0 == Logged(w, Call("handleRemovedNode", ip, port, 0))
        w1 == [Logged(w0, Call("pool.removeHost", ip, 0, 0))
                  EXCEPT !.pool = @ \ {ip}]
        w2 == [Logged(w1, Call("ring.removeHost", ip, 0, 0)) EXCEPT !.ring[ip] = 0] IN
    refreshRing(w2)

\* s.ring.getHost(addr): the entry's id, 0 for nil.
getHost(w, addr) == w.ring[addr]

\* host.setState(st)
setState(w, id, st) ==
    [Logged(w, Call(IF st = "up" THEN "setState(NodeUp)" ELSE "setState(NodeDown)",
                    w.objs[id].addr, 0, id))
        EXCEPT !.objs[id].state = st]

\* handleNodeUp that returns when the ring does not know the host.
handleNodeUp_NoDelegate(w, ctl, ip, port, fetch) ==
    LET w0 == Logged(Logged(w, Call("handleNodeUp", ip, port, 0)),
                     Call("ring.getHost", ip, 0, 0))
        host == getHost(w0, ip) IN
    IF host # 0
    THEN Logged(setState(w0, host, "up"), Call("pool.hostUp", ip, 0, host))
    ELSE w0

\* handleNodeUp(ip, port)
handleNodeUp(w, ctl, ip, port, fetch) ==
    LET w0 == Logged(Logged(w, Call("handleNodeUp", ip, port, 0)),
                     Call("ring.getHost", ip, 0, 0))
        host == getHost(w0, ip) IN
    IF host # 0
    THEN Logged(setState(w0, host, "up"), Call("pool.hostUp", ip, 0, host))
    ELSE handleNewNode(w0, ctl, ip, port, fetch)

\* handleNodeDown that tells the pool only about hosts the ring knows.
handleNodeDown_OnlyKnown(w, ip, port) ==
    LET w0 == Logged(Logged(w, Call("handleNodeDown", ip, port, 0)),
                     Call("ring.getHost", ip, 0, 0))
        host == getHost(w0, ip) IN
    IF host # 0
    THEN Logged(setState(w0, host, "down"), Call("pool.hostDown", ip, 0, 0))
    ELSE w0

\* handleNodeDown(ip, port)
handleNodeDown(w, ip, port) ==
    LET w0 == Logged(Logged(w, Call("handleNodeDown", ip, port, 0)),
                     Call("ring.getHost", ip, 0, 0))
        host == getHost(w0, ip)
        w1 == IF host # 0 THEN setState(w0, host, "down") ELSE w0 IN
    Logged(w1, Call("pool.hostDown", ip, 0, 0))

\* The Session before a callback: any ring over the hosts (the entry of HostSeq[i]
\* is object i), the pool holding the ring's hosts, with or without a control
\* connection.
NodeInit ==
    /\ npc = "idle"
    /\ frames = << >>
    /\ nodeEvents = << >>
    /\ todo = {}
    /\ control \in {"nil", "conn"}
    /\ \E present \in SUBSET DOMAIN HostSeq :
        /\ ring = [h \in Hosts |->
                      IF \E i \in present : HostSeq[i] = h
                      THEN CHOOSE i \in present : HostSeq[i] = h
                      ELSE 0]
        /\ \E st \in [present -> NodeStates] :
             objs = [i \in present |->
                        [addr |-> HostSeq[i], port |-> 9042, state |-> st[i], info |-> 0]]
        /\ pool = {HostSeq[i] : i \in present}
    /\ calls = << >>
    /\ dispatched = << >>
    /\ handled = "none"

Apply(w) ==
    /\ ring' = w.ring
    /\ objs' = w.objs
    /\ pool' = w.pool
    /\ calls' = w.calls

\* flush() started `go e.callback(batch)`: handleNodeEvent runs its first loop.
HandleNodeEventStart ==
    /\ npc = "idle"
    /\ \E fs \in Batches :
        /\ frames' = fs
        /\ nodeEvents' = aggregate(fs, << >>)
        /\ todo' = DOMAIN aggregate(fs, << >>)
    /\ npc' = "dispatch"
    /\ UNCHANGED <<control, ring, objs, pool, calls, dispatched, handled, dvars>>

Visit(a, fn) ==
    /\ todo' = todo \ {a}
    /\ dispatched' = Append(dispatched, [addr |-> a, change |-> nodeEvents[a].change,
                                          fn |-> fn])
    /\ UNCHANGED <<npc, frames, nodeEvents, control, handled, dvars>>

\* The second loop visits an address, in any order: case "NEW_NODE"
DispatchNewNode(a) ==
    /\ npc = "dispatch"
    /\ a \in todo
    /\ nodeEvents[a].change = "NEW_NODE"
    /\ \E fetch \in FetchOutcomes :
        Apply(handleNewNode(World, control, nodeEvents[a].host, nodeEvents[a].port, fetch))
    /\ Visit(a, "handleNewNode")

\* case "REMOVED_NODE"
DispatchRemovedNode(a) ==
    /\ npc = "dispatch"
    /\ a \in todo
    /\ nodeEvents[a].change = "REMOVED_NODE"
    /\ Apply(handleRemovedNode(World, nodeEvents[a].host, nodeEvents[a].port))
    /\ Visit(a, "handleRemovedNode")

\* case "MOVED_NODE": nothing is called
DispatchMovedNode(a) ==
    /\ npc = "dispatch"
    /\ a \in todo
    /\ nodeEvents[a].change = "MOVED_NODE"
    /\ Apply(World)
    /\ Visit(a, "none")

\* case "UP"
DispatchNodeUp(a) ==
    /\ npc = "dispatch"
    /\ a \in todo
    /\ nodeEvents[a].change = "UP"
    /\ \E fetch \in FetchOutcomes :
        Apply(handleNodeUp(World, control, nodeEvents[a].host, nodeEvents[a].port, fetch))
    /\ Visit(a, "handleNodeUp")

\* case "DOWN"
DispatchNodeDown(a) ==
    /\ npc = "dispatch"
    /\ a \in todo
    /\ nodeEvents[a].change = "DOWN"
    /\ Apply(handleNodeDown(World, nodeEvents[a].host, nodeEvents[a].port))
    /\ Visit(a, "handleNodeDown")

\* The map is exhausted: handleNodeEvent returns.
HandleNodeEventReturn ==
    /\ npc = "dispatch"
    /\ todo = {}
    /\ npc' = "done"
    /\ UNCHANGED <<frames, nodeEvents, todo, control, ring, objs, pool, calls,
                   dispatched, handled, dvars>>

InitNode ==
    /\ DebouncerInit
    /\ NodeInit

NextNode ==
    \/ HandleNodeEventStart
    \/ \E a \in Hosts : DispatchNewNode(a)
    \/ \E a \in Hosts : DispatchRemovedNode(a)
    \/ \E a \in Hosts : DispatchMovedNode(a)
    \/ \E a \in Hosts : DispatchNodeUp(a)
    \/ \E a \in Hosts : DispatchNodeDown(a)
    \/ HandleNodeEventReturn

SpecNode == InitNode /\ [][NextNode]_vars

\* ------------------------------------------ aggregator and handlers: claims

\* The calls made by the step being taken.
NewCalls == SubSeq(calls', Len(calls) + 1, Len(calls'))

CountIn(cs, op, a) == Cardinality({i \in DOMAIN cs : cs[i].op = op /\ cs[i].addr = a})

HasOp(cs, op) == \E i \in DOMAIN cs : cs[i].op = op

\* The step dispatches address a to handler fn.
Dispatches(a, fn) ==
    /\ a \in DOMAIN nodeEvents
    /\ dispatched' = Append(dispatched, [addr |-> a, change |-> nodeEvents[a].change,
                                          fn |-> fn])

HostsOf(fs) == {fs[i].host : i \in DOMAIN fs}

LastChange(fs, h) ==
    LET last == CHOOSE i \in DOMAIN fs :
                    fs[i].host = h /\ \A j \in DOMAIN fs : fs[j].host = h => j <= i IN
    fs[last].change

HandlerOps == {"handleNewNode", "handleRemovedNode", "handleNodeUp", "handleNodeDown"}

HandlerFor(change) ==
    CASE change = "NEW_NODE" -> "handleNewNode"
      [] change = "REMOVED_NODE" -> "handleRemovedNode"
      [] change = "UP" -> "handleNodeUp"
      [] change = "DOWN" -> "handleNodeDown"
      [] OTHER -> "none"

\* Handler entries logged for host h are those of kind k: one call of k's handler
\* (none for MOVED_NODE) and no other, but for the handleNewNode that handleNodeUp
\* itself calls.
HandlersMatch(h, k) ==
    /\ Cardinality({i \in DOMAIN dispatched : dispatched[i].addr = h}) = 1
    /\ \A i \in DOMAIN dispatched :
        dispatched[i].addr = h =>
            dispatched[i].change = k /\ dispatched[i].fn = HandlerFor(k)
    /\ \A op \in HandlerOps :
        CountIn(calls, op, h) =
            IF op = HandlerFor(k) THEN 1
            ELSE IF k = "UP" /\ op = "handleNewNode"
                 THEN CountIn(calls, op, h)
                 ELSE 0
    /\ k = "UP" => CountIn(calls, "handleNewNode", h) <= 1

\* C6: every host of the batch has exactly one resolved event, whose kind is that of
\* the host's last notification in batch order, and when handleNodeEvent returns
\* exactly one handler call was made for it, the one for that kind.
C6_LastWinsOneHandler ==
    /\ npc \in {"dispatch", "done"} =>
        /\ DOMAIN nodeEvents = HostsOf(frames)
        /\ \A h \in HostsOf(frames) :
            /\ nodeEvents[h].change = LastChange(frames, h)
            /\ nodeEvents[h].host = h
    /\ npc = "done" =>
        /\ \A h \in HostsOf(frames) : HandlersMatch(h, LastChange(frames, h))
        /\ \A i \in DOMAIN calls : calls[i].addr \in HostsOf(frames) \cup {""}

\* [DOWN, x, UP] with the first and last for one host and x for another: node-up
\* was called once for the host and node-down never.
C6_Witness ==
    /\ npc = "done"
    /\ Len(frames) = 3
    /\ frames[1].host = frames[3].host
    /\ frames[2].host # frames[1].host
    /\ frames[1].change = "DOWN"
    /\ frames[3].change = "UP"
    /\ CountIn(calls, "handleNodeUp", frames[1].host) = 1
    /\ CountIn(calls, "handleNodeDown", frames[1].host) = 0

\* The step runs handleNodeUp for an address the ring has no entry for.
NodeUpAbsentStep(a) == Dispatches(a, "handleNodeUp") /\ ring[a] = 0

Delegated(a) ==
    /\ Len(NewCalls) >= 3
    /\ NewCalls[1] = Call("handleNodeUp", a, nodeEvents[a].port, 0)
    /\ NewCalls[2] = Call("ring.getHost", a, 0, 0)
    /\ NewCalls[3] = Call("handleNewNode", a, nodeEvents[a].port, 0)

AllThreeInvoked(a) ==
    /\ CountIn(NewCalls, "fetchHostInfo", a) = 1
    /\ CountIn(NewCalls, "ring.addHostIfMissing", a) = 1
    /\ CountIn(NewCalls, "pool.addHost", a) = 1

\* The fetch made by the step returned a host (not an error).
FetchSucceeded(a) ==
    \E i \in DOMAIN NewCalls :
        NewCalls[i].op = "fetchHostInfo" /\ NewCalls[i].addr = a /\ NewCalls[i].obj # 0

\* C7 as stated: handleNodeUp for an address absent from the ring calls
\* handleNewNode, and fetchHostInfo, ring.addHostIfMissing and pool.addHost are all
\* invoked for the host.  (Stated for a Session that has a control connection, the
\* one that receives events.)
C7_UpAbsentAllInvoked ==
    [][\A a \in Hosts :
        (NodeUpAbsentStep(a) /\ control = "conn")
            => (Delegated(a) /\ AllThreeInvoked(a))]_vars

\* C7 amended: handleNodeUp for an absent address always calls handleNewNode with
\* the same address and port; the three collaborator calls are all made when a
\* control connection is configured and fetchHostInfo succeeds.
C7_UpAbsentDelegates ==
    [][\A a \in Hosts :
        NodeUpAbsentStep(a) =>
            /\ Delegated(a)
            /\ (control = "conn" /\ FetchSucceeded(a)) => AllThreeInvoked(a)
            /\ AllThreeInvoked(a) => (control = "conn" /\ FetchSucceeded(a))]_vars

C7_Witness ==
    /\ Len(dispatched) = 1
    /\ dispatched[1].fn = "handleNodeUp"
    /\ Len(calls) = 7
    /\ calls[3].op = "handleNewNode"
    /\ calls[4].op = "fetchHostInfo"
    /\ calls[5].op = "ring.addHostIfMissing"
    /\ calls[6].op = "pool.addHost"
    /\ ring[dispatched[1].addr] = calls[6].obj
    /\ dispatched[1].addr \in pool

\* C8: handleNodeDown calls pool.hostDown(address) exactly once whether or not the
\* ring has the host; the host is marked Down iff it has an entry; the ring's entries
\* stay as they are; nothing is fetched and no ring refresh is requested.
C8_NodeDown ==
    [][\A a \in Hosts :
        Dispatches(a, "handleNodeDown") =>
            /\ CountIn(NewCalls, "pool.hostDown", a) = 1
            /\ NewCalls[Len(NewCalls)] = Call("pool.hostDown", a, 0, 0)
            /\ ring' = ring
            /\ DOMAIN objs' = DOMAIN objs
            /\ objs' = IF ring[a] # 0 THEN [objs EXCEPT ![ring[a]].state = "down"]
                       ELSE objs
            /\ HasOp(NewCalls, "setState(NodeDown)") <=> ring[a] # 0
            /\ \A op \in {"fetchHostInfo", "refreshRing", "ring.addHostIfMissing",
                          "ring.removeHost", "pool.addHost", "pool.removeHost",
                          "handleNewNode"} : ~HasOp(NewCalls, op)]_vars

\* handleNodeDown ran for a host the ring does not hold, and told the pool.
C8_Witness ==
    /\ Len(dispatched) = 1
    /\ dispatched[1].fn = "handleNodeDown"
    /\ ring[dispatched[1].addr] = 0
    /\ calls = <<Call("handleNodeDown", dispatched[1].addr, 9042, 0),
                 Call("ring.getHost", dispatched[1].addr, 0, 0),
                 Call("pool.hostDown", dispatched[1].addr, 0, 0)>>

\* The scenario of C9.
E2EBatch ==
    <<[type |-> "topology", host |-> "10.0.0.1", port |-> 9042, change |-> "NEW_NODE"],
      [type |-> "status", host |-> "10.0.0.1", port |-> 9042, change |-> "UP"]>>

\* One resolved event, of kind UP, for 10.0.0.1.
E2EResolved ==
    (frames = E2EBatch /\ npc \in {"dispatch", "done"}) =>
        /\ DOMAIN nodeEvents = {"10.0.0.1"}
        /\ nodeEvents["10.0.0.1"] = [change |-> "UP", host |-> "10.0.0.1", port |-> 9042]
        /\ npc = "done" =>
            /\ Len(dispatched) = 1
            /\ dispatched[1].fn = "handleNodeUp"

\* The step dispatches the scenario's only host while the ring has no entry for it.
E2EStep == frames = E2EBatch /\ ring["10.0.0.1"] = 0 /\ todo = {"10.0.0.1"} /\ todo' = {}

OfOps(cs, ops) == SelectSeq(cs, LAMBDA c : c.op \in ops)

\* fetchHostInfo(10.0.0.1, 9042), then pool.addHost, then refreshRing, once each.
E2ECollaborators ==
    LET cs == OfOps(NewCalls, {"fetchHostInfo", "pool.addHost", "refreshRing"}) IN
    /\ Len(cs) = 3
    /\ cs[1].op = "fetchHostInfo" /\ cs[1].addr = "10.0.0.1" /\ cs[1].port = 9042
    /\ cs[2].op = "pool.addHost" /\ cs[2].addr = "10.0.0.1"
    /\ cs[3].op = "refreshRing"

NewNodeStep(a) == CountIn(NewCalls, "handleNewNode", a) = 1

\* The fetch made by the step returned an error.
FetchErrored(a) ==
    \E i \in DOMAIN NewCalls :
        NewCalls[i].op = "fetchHostInfo" /\ NewCalls[i].addr = a /\ NewCalls[i].obj = 0

\* C10: when handleNewNode runs without a control connection, or its fetch fails, the
\* ring and the pool are left unchanged, no ring refresh is requested and the fetch
\* is not retried.
C10_NewNodeAborts ==
    [][\A a \in Hosts :
        (NewNodeStep(a) /\ (control = "nil" \/ FetchErrored(a))) =>
            /\ ring' = ring
            /\ pool' = pool
            /\ objs' = objs
            /\ CountIn(NewCalls, "fetchHostInfo", a) = (IF control = "nil" THEN 0 ELSE 1)
            /\ NewCalls[Len(NewCalls)].op = (IF control = "nil" THEN "handleNewNode"
                                              ELSE "fetchHostInfo")
            /\ \A op \in {"refreshRing", "ring.addHostIfMissing", "pool.addHost",
                          "update"} : ~HasOp(NewCalls, op)]_vars

\* handleNewNode was dispatched, its fetch failed, and the host is in neither the
\* ring nor the pool.
C10_Witness ==
    /\ control = "conn"
    /\ Len(dispatched) = 1
    /\ dispatched[1].fn = "handleNewNode"
    /\ calls = <<Call("handleNewNode", dispatched[1].addr, 9042, 0),
                 Call("fetchHostInfo", dispatched[1].addr, 9042, 0)>>
    /\ ring[dispatched[1].addr] = 0
    /\ dispatched[1].addr \notin pool

\* The one call of op that the step makes.
TheCall(op) == NewCalls[CHOOSE i \in DOMAIN NewCalls : NewCalls[i].op = op]

Position(op) == CHOOSE i \in DOMAIN NewCalls : NewCalls[i].op = op

\* C18: handleNewNode with a control connection and a successful fetch leaves a
\* ring entry for the address.  An entry that was there stays the ring's instance,
\* takes over the fetched metadata, and is the instance given to pool.addHost;
\* without one the fetched instance becomes the entry and goes to the pool.
\* pool.addHost is called once, then refreshRing once, as the last call.
C18_NewNodeRegisters ==
    [][\A a \in Hosts :
        (NewNodeStep(a) /\ control = "conn" /\ FetchSucceeded(a)) =>
            LET new == TheCall("fetchHostInfo").obj IN
            /\ ring'[a] # 0
            /\ IF ring[a] # 0
               THEN /\ ring'[a] = ring[a]
                    /\ ring[a] # new
                    /\ HasOp(NewCalls, "update")
                    /\ TheCall("update").obj = ring[a]
                    /\ objs'[ring[a]].info = objs'[new].info
                    /\ TheCall("pool.addHost").obj = ring[a]
               ELSE /\ ring'[a] = new
                    /\ ~HasOp(NewCalls, "update")
                    /\ TheCall("pool.addHost").obj = new
            /\ a \in pool'
            /\ CountIn(NewCalls, "pool.addHost", a) = 1
            /\ CountIn(NewCalls, "refreshRing", "") = 1
            /\ Position("pool.addHost") < Position("refreshRing")
            /\ Position("refreshRing") = Len(NewCalls)]_vars

\* NEW_NODE was dispatched for a host the ring already held: the entry is the old
\* instance, now carrying the fetched metadata, and the pool was given that one.
C18_Witness ==
    /\ control = "conn"
    /\ Len(dispatched) = 1
    /\ dispatched[1].fn = "handleNewNode"
    /\ Len(calls) = 6
    /\ calls[2].op = "fetchHostInfo"
    /\ calls[2].obj # 0
    /\ calls[4].op = "update"
    /\ calls[5].op = "pool.addHost"
    /\ calls[5].obj = ring[dispatched[1].addr]
    /\ calls[5].obj # calls[2].obj
    /\ objs[calls[5].obj].info = objs[calls[2].obj].info
    /\ calls[6].op = "refreshRing"

\* ------------------------------------------ debouncer: claims on stop and order

\* C11: the flusher leaves its loop on the stop signal without a final flush.  The
\* frames pending when it received from e.quit stay at the head of the pending
\* sequence and are in no batch handed to the callback; from that step on no
\* callback is started and no flush runs.
C11_NoFinalFlush ==
    /\ [](pcF = "done" =>
            /\ IsPrefix(pendingAtQuit, events)
            /\ \A i \in DOMAIN delivered :
                Range(delivered[i]) \cap Range(pendingAtQuit) = {})
    /\ [][pcF' = "done" =>
            /\ delivered' = delivered
            /\ running' \subseteq running
            /\ flushLogged' = flushLogged]_vars

\* stop() returned; a frame was pending when the flusher got the signal, batches
\* were delivered before that, and a later call appended behind the lost frame.
C11_Witness ==
    /\ pcF = "done"
    /\ pcS = "returned"
    /\ pendingAtQuit # << >>
    /\ Len(events) > Len(pendingAtQuit)
    /\ Len(delivered) >= 1

\* The frames of the calls that hold the lock and have not reached the append.
InFlight == {frameP[p] : p \in {q \in Producers : pcP[q] \in {"reset", "append"}}}

\* The frames accepted so far, in the order their calls acquired the lock (frames
\* are numbered in that order): all but the dropped ones and the one in flight.
Accepted ==
    SelectSeq([i \in 1..(nextId - 1) |-> i],
              LAMBDA i : i \notin Range(dropped) /\ i \notin InFlight)

RECURSIVE Flatten(_)
Flatten(ss) == IF ss = << >> THEN << >> ELSE Head(ss) \o Flatten(Tail(ss))

\* C13: until stop() has returned, the batches handed to the callback, in flush
\* order, followed by the pending sequence, are exactly the accepted frames in
\* lock-acquisition order: nothing lost, duplicated or reordered.
C13_AcceptedInOrder ==
    pcS # "returned" => Flatten(delivered) \o events = Accepted

\* Two batches went out with their callbacks still running, a frame was dropped,
\* and another frame is pending.
C13_Witness ==
    /\ pcS = "idle"
    /\ Len(delivered) >= 2
    /\ Cardinality(running) >= 2
    /\ dropped # << >>
    /\ events # << >>

\* The slice handed to the i-th callback still reads as it did when handed over.
BatchAsHanded(i) ==
    SubSeq(heap.arr[heap.of[i]], 1, Len(delivered[i])) = delivered[i]

\* A flush() that finds frames starts one callback with all of them and leaves the
\* pending sequence empty.
NonEmptyFlushStep ==
    (pcF = "flush" /\ pcF' = "unlock" /\ events # << >>)
        => /\ delivered' = Append(delivered, events)
           /\ running' = running \cup {Len(delivered) + 1}
           /\ events' = << >>

\* C14: each non-empty flush starts exactly one callback; every callback has a
\* backing array of its own, which is neither another callback's nor the one
\* debounce() appends into, and reads what it was handed whatever calls and
\* flushes follow, whether or not earlier callbacks have returned.
C14_DetachedBatches ==
    /\ [](/\ Len(heap.of) = Len(delivered)
          /\ \A i \in DOMAIN delivered : BatchAsHanded(i)
          /\ \A i, j \in DOMAIN heap.of : i # j => heap.of[i] # heap.of[j]
          /\ heap.cur \notin Range(heap.of))
    /\ [][NonEmptyFlushStep]_vars

\* The callbacks of two flushes run at the same time while a third call has just
\* appended its frame.
C14_Witness ==
    /\ Len(delivered) >= 2
    /\ {Len(delivered) - 1, Len(delivered)} \subseteq running
    /\ events # << >>
    /\ \E p \in Producers : pcP[p] = "unlock"

\* The timer is running, or it expired and the flush for that expiry has not run:
\* the expiry sits in timer.C, or the flusher received it and has not flushed yet.
FlushDue == timerArmed \/ timerC = 1 \/ pcF \in {"lock", "flush"}

\* The timer.Reset of a debounce() call leaves the timer running.
ResetStep ==
    \A p \in Producers : (pcP[p] = "reset" /\ pcP'[p] = "append") => timerArmed'

\* C16: every debounce() call resets the timer before it buffers or drops its
\* frame, so a call past its Reset (a dropping one included) has a flush due; and
\* until stop() has returned a non-empty pending sequence has a flush due.
C16_PendingHasFlushDue ==
    /\ [][ResetStep]_vars
    /\ [](\A p \in Producers :
            (pcP[p] \in {"append", "unlock"} /\ pcS # "returned") => FlushDue)
    /\ []((events # << >> /\ pcS # "returned") => FlushDue)

\* A call that dropped its frame is about to return; it found the timer expired
\* and left it running.
C16_Witness ==
    /\ pcS = "idle"
    /\ timerArmed
    /\ timerC = 1
    /\ Len(events) = eventBufferSize
    /\ \E p \in Producers :
        /\ pcP[p] = "unlock"
        /\ dropped # << >>
        /\ dropped[Len(dropped)] = frameP[p]

\* Idle: stop() was not called, nobody is inside a critical section, and nothing
\* is pending.
Idle == pcS = "idle" /\ mu = Unlocked /\ events = << >>

TimerInactive == ~timerArmed /\ timerC = 0

\* No debounce() call has reset the timer between an expiry and the flush that
\* the expiry triggers.
Undisturbed == \A b \in DOMAIN bursts : ~bursts[b].dirty

\* C17 as stated: whenever the debouncer is Idle the timer is inactive, and so no
\* flush triggered by an expiry finds the pending sequence empty.
C17_IdleMeansTimerInactive ==
    /\ Idle => TimerInactive
    /\ flushLogged # 0

\* C17 amended: the same, as long as no debounce() call has reset the timer
\* between an expiry and the flush that the expiry triggers.
C17_IdleMeansTimerInactiveUndisturbed ==
    Undisturbed =>
        /\ Idle => TimerInactive
        /\ flushLogged # 0

\* Idle again after two bursts, each flushed by its own expiry, with the timer
\* inactive.
C17_Witness ==
    /\ Idle
    /\ Undisturbed
    /\ TimerInactive
    /\ Len(bursts) >= 2
    /\ Len(delivered) = Len(bursts)
    /\ pcF = "select"

\* --------------------------------------------- debouncer under fair scheduling

\* Total number of debounce() calls in a run of SpecFair.
MaxFairCalls == 3

\* As DebounceCall, in runs of at most MaxFairCalls calls.
DebounceCallFair(p) ==
    /\ pcP[p] = "idle"
    /\ nextId + Cardinality({q \in Producers : pcP[q] = "lock"}) <= MaxFairCalls
    /\ pcP' = [pcP EXCEPT ![p] = "lock"]
    /\ UNCHANGED <<events, mu, timerArmed, timerC, pcF, pcS, quitClosed, frameP,
                   nextId, delivered, running, dropped, bursts, straddled, flushLogged,
                   stopAt, pendingAtQuit, heap, nvars>>

NextFair ==
    \/ \E p \in Producers : DebounceCallFair(p)
    \/ \E p \in Producers : DebounceLock(p)
    \/ \E p \in Producers : DebounceReset(p)
    \/ \E p \in Producers : DebounceAppend(p)
    \/ \E p \in Producers : DebounceUnlock(p)
    \/ TimerFire
    \/ FlusherRecvTimer
    \/ FlusherLock
    \/ FlusherFlush
    \/ FlusherUnlock
    \/ StopCall
    \/ FlusherRecvQuit
    \/ StopClose
    \/ \E i \in running : CallbackReturn(i)

\* What the Go runtime guarantees.  A goroutine that can run does run (WF on the
\* steps inside debounce(), flusher and stop()); a running timer expires; a
\* goroutine blocked in e.mu.Lock() gets the lock after finitely many hand-overs
\* (sync.Mutex starvation mode: SF); a select case that is ready again and again
\* is eventually chosen (SF).  Nothing makes a caller call debounce() or stop(),
\* and nothing makes a callback return.
Fairness ==
    /\ \A p \in Producers :
        /\ SF_vars(DebounceLock(p))
        /\ WF_vars(DebounceReset(p))
        /\ WF_vars(DebounceAppend(p))
        /\ WF_vars(DebounceUnlock(p))
    /\ WF_vars(TimerFire)
    /\ SF_vars(FlusherRecvTimer)
    /\ SF_vars(FlusherLock)
    /\ WF_vars(FlusherFlush)
    /\ WF_vars(FlusherUnlock)
    /\ SF_vars(FlusherRecvQuit)
    /\ WF_vars(StopClose)

SpecFair == Init /\ [][NextFair]_vars /\ Fairness

\* e.mu is held only by a goroutine inside its critical section: a producer
\* between Lock and Unlock in debounce(), or the flusher around flush().
LockHeldInsideSection ==
    /\ mu = <<"flusher", 0>> <=> pcF \in {"flush", "unlock"}
    /\ \A p \in Producers :
        mu = <<"producer", p>> <=> pcP[p] \in {"reset", "append", "unlock"}
    /\ mu \in {Unlocked, <<"flusher", 0>>} \cup {<<"producer", p>> : p \in Producers}

\* C15: callbacks are under no obligation to return, and still: no callback holds
\* e.mu; every debounce() call that was entered returns; and, with callbacks
\* running and no stop(), pending frames still reach a new callback.
C15_CallbackNeverStalls ==
    /\ []LockHeldInsideSection
    /\ \A p \in Producers : (pcP[p] # "idle") ~> (pcP[p] = "idle")
    /\ \A n \in 0..MaxFairCalls :
        (Len(delivered) = n /\ running # {} /\ events # << >>)
            ~> (Len(delivered) > n \/ pcS # "idle")

\* The first callback has not returned; meanwhile later calls completed and a
\* later flush started another callback.
C15_Witness ==
    /\ 1 \in running
    /\ Len(delivered) >= 2
    /\ nextId > MaxFairCalls
    /\ \A p \in Producers : pcP[p] = "idle"
    /\ pcF = "select"
    /\ pcS = "idle"

\* C19: in a fair run in which stop() is never called (and the callers make
\* finitely many calls), from some point on the pending sequence is empty for
\* good and the batches handed to the callback hold every accepted frame.
C19_EventualDelivery ==
    [](pcS = "idle") => <>[](events = << >> /\ Flatten(delivered) = Accepted)

\* All calls were made, their frames went out in two batches or more, and the
\* debouncer is at rest.
C19_Witness ==
    /\ Quiescent
    /\ nextId = MaxFairCalls + 1
    /\ events = << >>
    /\ Len(delivered) >= 2
    /\ Flatten(delivered) = Accepted
    /\ mu = Unlocked

\* C20: in a fair run, a stop() that has reached its send on e.quit returns, and
\* the flusher has left its loop by then, whatever the debouncer was doing.
C20_StopTerminates ==
    (pcS = "send") ~> (pcS = "returned" /\ pcF = "done")

\* stop() returned although it was called amid activity: a callback is running,
\* one call is inside its critical section, another waits for the lock, and the
\* timer is running.
C20_Witness ==
    /\ pcS = "returned"
    /\ pcF = "done"
    /\ running # {}
    /\ timerArmed
    /\ \E p \in Producers : pcP[p] = "lock"
    /\ \E p \in Producers : pcP[p] \in {"append", "unlock"}

\* ------------------------------------------------------ Session.handleEvent

\* Number of notifications a run hands to debounce() through handleEvent.
MaxEvents == 2

\* The frame types framer.parseFrame() can yield: the five event frames the switch
\* names, and "other" for every other frame type.
FrameTypes ==
    {"schemaChangeKeyspace", "schemaChangeFunction", "schemaChangeTable",
     "topologyChangeEventFrame", "statusChangeEventFrame", "other"}

\* What handleEvent is given: a framer whose parseFrame() fails, or yields a frame.
Framers == {[err |-> TRUE, type |-> "none"]} \cup [err : {FALSE}, type : FrameTypes]

Kind(framer) == IF framer.err THEN "parse error" ELSE framer.type

\* handleEvent that treats a table schema change like a topology change.
handleEvent_DebouncesSchemaTable(framer) ==
    IF framer.err THEN FALSE
    ELSE CASE framer.type = "schemaChangeKeyspace" -> FALSE
           [] framer.type = "schemaChangeFunction" -> FALSE
           [] framer.type \in {"schemaChangeTable", "topologyChangeEventFrame",
                               "statusChangeEventFrame"} -> TRUE
           [] OTHER -> FALSE

\* handleEvent(framer): TRUE when it calls s.nodeEvents.debounce(frame).  A parse
\* error is logged and returns; the schema cases are empty; the default case logs
\* the frame as invalid.
handleEvent(framer) ==
    IF framer.err THEN FALSE
    ELSE CASE framer.type = "schemaChangeKeyspace" -> FALSE
           [] framer.type = "schemaChangeFunction" -> FALSE
           [] framer.type = "schemaChangeTable" -> FALSE
           [] framer.type \in {"topologyChangeEventFrame",
                               "statusChangeEventFrame"} -> TRUE
           [] OTHER -> FALSE

\* A goroutine runs handleEvent(framer) up to its return or to its call of debounce().
HandleEvent(p, framer) ==
    /\ pcP[p] = "idle"
    /\ handled' = Kind(framer)
    /\ IF handleEvent(framer)
       THEN /\ nextId + Cardinality({q \in Producers : pcP[q] = "lock"}) <= MaxEvents
            /\ pcP' = [pcP EXCEPT ![p] = "lock"]
       ELSE pcP' = pcP
    /\ UNCHANGED <<events, mu, timerArmed, timerC, pcF, pcS, quitClosed, frameP,
                   nextId, delivered, running, dropped, bursts, straddled, flushLogged,
                   stopAt, pendingAtQuit, heap>>
    /\ UNCHANGED <<npc, frames, nodeEvents, todo, control, ring, objs, pool, calls,
                   dispatched>>

\* The debouncer with handleEvent as the only caller of debounce().
NextEvent ==
    \/ \E p \in Producers : \E framer \in Framers : HandleEvent(p, framer)
    \/ \E p \in Producers : DebounceLock(p)
    \/ \E p \in Producers : DebounceReset(p)
    \/ \E p \in Producers : DebounceAppend(p)
    \/ \E p \in Producers : DebounceUnlock(p)
    \/ TimerFire
    \/ FlusherRecvTimer
    \/ FlusherLock
    \/ FlusherFlush
    \/ FlusherUnlock
    \/ StopCall
    \/ FlusherRecvQuit
    \/ StopClose
    \/ \E i \in running : CallbackReturn(i)

SpecEvent == Init /\ [][NextEvent]_vars

DebouncedKinds == {"topologyChangeEventFrame", "statusChangeEventFrame"}

\* Some goroutine enters debounce() in this step.
EntersDebounce == \E p \in Producers : pcP[p] = "idle" /\ pcP'[p] = "lock"

\* C12: debounce() is entered only by handleEvent of a topology or status change,
\* and such a notification always enters it; handleEvent of anything else (schema
\* change, other frame type, parse error) leaves the whole debouncer as it was:
\* pending sequence, timer, batches and running callbacks, so nothing of the
\* notification is left that a later flush could hand to a lifecycle handler.
C12_DebounceIffNodeEvent ==
    [][/\ EntersDebounce => handled' \in DebouncedKinds
       /\ (handled' # handled /\ handled' \in DebouncedKinds) => EntersDebounce
       /\ (handled' # handled /\ handled' \notin DebouncedKinds) =>
            /\ UNCHANGED dvars
            /\ UNCHANGED <<calls, dispatched>>]_vars

\* A schema change, another frame or a parse error was just discarded while a
\* debounced notification was pending with its timer running.
C12_Witness ==
    /\ handled \in {"schemaChangeKeyspace", "schemaChangeFunction", "schemaChangeTable",
                     "other", "parse error"}
    /\ Len(events) = 1
    /\ timerArmed
    /\ \A p \in Producers : pcP[p] = "idle"

=============================================================================
